---- MODULE Spec2Model ----
(***************************************************************************)
(* Model of depth-view: the depth normalization / colorization functions   *)
(* of depthview/depth_view.py, the playback loops view_by_colormap and     *)
(* view3d, and the capture command of depthview/zed_capture.py.            *)
(*                                                                         *)
(* Four specifications share the variables:                                *)
(*   SpecNorm         the pure functions, applied to bounded inputs        *)
(*   SpecPlay         depth_viewer_main: view_by_colormap / view3d         *)
(*   SpecCapture      the capture command: zed_capture.py is loaded        *)
(*   SpecCaptureMain  main / capture_main of zed_capture.py, entered with  *)
(*                    the names the module imports bound                   *)
(***************************************************************************)
EXTENDS Integers, Sequences, FiniteSets, TLC

VARIABLES
    \* ---- the build
    castPolicy,   \* what astype(np.uint8) does to a value outside 0..255
    \* ---- the data
    dtype,        \* the dtype of the depth arrays: "float32" or "float64"
    \* ---- SpecNorm: one call of a pure function
    nDepth,       \* depth_raw, the flattened array of pixels
    nVmin,        \* the vmin argument (None or a number)
    nVmax,        \* the vmax argument (None or a number)
    nCall,        \* which function was called ("none" before the call)
    nResult,      \* its outcome: a returned image or the exception raised
    \* ---- SpecPlay: depth_viewer_main
    pArgs,        \* the parsed command line
    pDir,         \* the session directory: the set of files in it
    pPc,          \* "start", "loop", "done", "error"
    pLeft,        \* left_images, sorted
    pNpys,        \* depth_npys, sorted
    pPairs,       \* the (leftname, depth_name) pairs the loop has taken, in order
    pShown,       \* what the last iteration displayed
    pWin,         \* the display / visualization window handle
    pErr,         \* the exception that ended the run, or "none"
    \* ---- SpecCapture, SpecCaptureMain: zed_capture.py
    cArgs,        \* the parsed command line
    cPc,          \* "start", "main", "loop", "exited"
    cExit,        \* how the process ended, or "none"
    cOutdir,      \* TRUE once the output directories are created
    cZed,         \* the camera handle: "none", "created", "open", "closed"
    cInit,        \* sl.InitParameters as handed to zed.open
    cWin,         \* the preview window handle: "none", "open", "destroyed"
    cParam,       \* TRUE once camera_param.json is written
    counter,      \* the frame index of capture_main
    cFiles,       \* the files written by the session
    cShown,       \* number of previews shown
    cGrabs,       \* history: number of successful grabs
    cLast         \* history: what the last loop pass did

normVars == <<nDepth, nVmin, nVmax, nCall, nResult>>
playVars == <<pArgs, pDir, pPc, pLeft, pNpys, pPairs, pShown, pWin, pErr>>
capVars  == <<cArgs, cPc, cExit, cOutdir, cZed, cInit, cWin, cParam,
              counter, cFiles, cShown, cGrabs, cLast>>
vars == <<castPolicy, dtype, normVars, playVars, capVars>>

(***************************************************************************)
(* Bounds of the model.                                                    *)
(***************************************************************************)
MaxLen    == 2   \* pixels in a depth array
MaxDepth  == 3   \* finite depth values are 0..MaxDepth
MaxFiles  == 3   \* indices 0..MaxFiles-1 may be present in a session directory
MaxFrames == 3   \* successful grabs modelled in one capture session

(***************************************************************************)
(* Values.  A pixel or a bound is a record: a finite number, NaN, +Inf,    *)
(* -Inf, or (for an argument) Python's None.                               *)
(***************************************************************************)
Fin(v) == [k |-> "fin", v |-> v]
NaN    == [k |-> "nan", v |-> 0]
PosInf == [k |-> "pinf", v |-> 0]
NegInf == [k |-> "ninf", v |-> 0]
None   == [k |-> "none", v |-> 0]

FiniteVals == {Fin(v) : v \in 0..MaxDepth}
Pixels     == FiniteVals \cup {NaN, PosInf, NegInf}
BoundArgs  == FiniteVals \cup {None}
DepthArrays == UNION {[1..n -> Pixels] : n \in 0..MaxLen}

\* np.isfinite
isfinite(p) == p.k = "fin"

\* depth[np.isfinite(depth)]: the finite entries
FiniteEntries(depth) == {depth[i].v : i \in {j \in DOMAIN depth : isfinite(depth[j])}}

SetMax(S) == CHOOSE x \in S : \A y \in S : y <= x
SetMin(S) == CHOOSE x \in S : \A y \in S : x <= y

\* An outcome of a call: a value, or the exception that left it.
Ok(x)      == [kind |-> "ok", val |-> x]
Raised(e)  == [kind |-> e, val |-> <<>>]

(***************************************************************************)
(* depth_view.py: finitemax, finitemin, normalize_image                    *)
(***************************************************************************)

\* np.nanmax(depth[np.isfinite(depth)]): numpy raises ValueError when the
\* selection is empty ("zero-size array to reduction operation").
finitemax(depth) ==
    IF FiniteEntries(depth) = {} THEN Raised("ValueError")
    ELSE Ok(SetMax(FiniteEntries(depth)))

finitemin(depth) ==
    IF FiniteEntries(depth) = {} THEN Raised("ValueError")
    ELSE Ok(SetMin(FiniteEntries(depth)))

Abs(x)  == IF x < 0 THEN -x ELSE x
Sign(x) == IF x < 0 THEN -1 ELSE IF x > 0 THEN 1 ELSE 0

\* The dtype of a depth array: the arithmetic of normalize_image is done in
\* it (an integer array is divided in float64).  The significand has 24
\* bits in float32 and 53 in float64.
Dtypes == {"float32", "float64"}
Precision(dt) == IF dt = "float32" THEN 24 ELSE 53

(***************************************************************************)
(* IEEE 754 binary arithmetic, round to nearest, ties to even.  A positive *)
(* float is m * 2^(-e) with the significand m a natural number kept as a   *)
(* sequence of limbs, least significant first, so that 53-bit significands *)
(* are computed exactly.  The operands (|p - vmin|, |vmax - vmin|, the     *)
(* scale factor) are integers below 2^LimbBits; exponent range is not      *)
(* modelled, none of these quotients leaves it.                            *)
(***************************************************************************)
LimbBits == 15
Limb == 2^LimbBits

RECURSIVE BitLen(_)
BitLen(n) == IF n = 0 THEN 0 ELSE 1 + BitLen(n \div 2)

RECURSIVE BigFromInt(_)
BigFromInt(n) == IF n = 0 THEN <<>> ELSE <<n % Limb>> \o BigFromInt(n \div Limb)

RECURSIVE BigToInt(_)
BigToInt(X) == IF X = <<>> THEN 0 ELSE Head(X) + Limb * BigToInt(Tail(X))

RECURSIVE BigNorm(_)
BigNorm(X) ==
    IF X = <<>> THEN <<>>
    ELSE IF X[Len(X)] = 0 THEN BigNorm(SubSeq(X, 1, Len(X) - 1)) ELSE X

RECURSIVE BigMulCarry(_, _, _)
BigMulCarry(X, c, carry) ==
    IF X = <<>> THEN BigFromInt(carry)
    ELSE LET t == Head(X) * c + carry
         IN  <<t % Limb>> \o BigMulCarry(Tail(X), c, t \div Limb)

\* X * c, 0 <= c <= Limb
BigMul(X, c) == BigNorm(BigMulCarry(X, c, 0))

RECURSIVE BigDivRem(_, _)
\* quotient and remainder of X by d, 0 < d <= Limb
BigDivRem(X, d) ==
    IF X = <<>> THEN [q |-> <<>>, r |-> 0]
    ELSE LET hi == BigDivRem(Tail(X), d)
             t  == hi.r * Limb + Head(X)
         IN  [q |-> <<t \div d>> \o hi.q, r |-> t % d]

RECURSIVE BigShl(_, _)
\* X * 2^k
BigShl(X, k) ==
    IF X = <<>> \/ k = 0 THEN X
    ELSE IF k >= LimbBits THEN <<0>> \o BigShl(X, k - LimbBits)
    ELSE BigMul(X, 2^k)

RECURSIVE BigShr(_, _)
\* floor(X / 2^k)
BigShr(X, k) ==
    IF X = <<>> \/ k = 0 THEN X
    ELSE IF k >= LimbBits THEN BigShr(Tail(X), k - LimbBits)
    ELSE BigNorm(BigDivRem(X, 2^k).q)

RECURSIVE BigInc(_)
BigInc(X) ==
    IF X = <<>> THEN <<1>>
    ELSE IF Head(X) + 1 < Limb THEN <<Head(X) + 1>> \o Tail(X)
    ELSE <<0>> \o BigInc(Tail(X))

BigOdd(X) == X # <<>> /\ Head(X) % 2 = 1

BigBitLen(X) ==
    IF X = <<>> THEN 0 ELSE (Len(X) - 1) * LimbBits + BitLen(X[Len(X)])

\* X / d rounded to the nearest integer, ties to even
RoundedDiv(X, d) ==
    LET qr == BigDivRem(X, d)
        q  == BigNorm(qr.q)
    IN  IF 2 * qr.r > d \/ (2 * qr.r = d /\ BigOdd(q)) THEN BigInc(q) ELSE q

\* floor(log2(a / b)) for integers a, b > 0
Log2Quot(a, b) ==
    LET d0 == BitLen(a) - BitLen(b)
        ge == IF d0 >= 0 THEN a >= b * 2^d0 ELSE a * 2^(-d0) >= b
    IN  IF ge THEN d0 ELSE d0 - 1

\* a / b in a float of the given precision, integers a, b > 0
FloatDiv(a, b, bits) ==
    LET e == bits - 1 - Log2Quot(a, b)
    IN  [m |-> RoundedDiv(BigShl(BigFromInt(a), e), b), e |-> e]

\* x * c in a float of the given precision, integer c > 0
FloatMul(x, c, bits) ==
    LET y == BigMul(x.m, c)
        d == BigBitLen(y) - bits
    IN  IF d <= 0 THEN [m |-> y, e |-> x.e]
        ELSE [m |-> RoundedDiv(y, 2^d), e |-> x.e - d]

\* the integer part of a positive float
FloatTrunc(x) ==
    IF x.e >= 0 THEN BigToInt(BigShr(x.m, x.e)) ELSE BigToInt(BigShl(x.m, -x.e))

\* The scale factor of normalize_image.
ScaleTo == 255

\* (p - vmin) / r * k in floats of the given precision, for a pixel p and
\* integers vmin, r, k > 0: the subtraction is exact, the division and the
\* multiplication each round.  A finite result is kept as its integer part
\* (toward zero), which is all the cast reads; it can be one less in
\* magnitude than the integer part of the exact (p - vmin) * k / r.
\* x/0 is +Inf, -Inf or NaN (0/0); Inf and NaN propagate.
ScaledBy(p, vmin, r, k, bits) ==
    LET s == IF p.k = "fin" THEN Sign(p.v - vmin)
             ELSE IF p.k = "pinf" THEN 1
             ELSE IF p.k = "ninf" THEN -1 ELSE 0
    IN  IF p.k = "nan" THEN NaN
        ELSE IF r = 0
             THEN IF s > 0 THEN PosInf ELSE IF s < 0 THEN NegInf ELSE NaN
        ELSE IF p.k # "fin" THEN (IF s * Sign(r) > 0 THEN PosInf ELSE NegInf)
        ELSE IF s = 0 THEN Fin(0)
        ELSE Fin(s * Sign(r) *
                 FloatTrunc(FloatMul(FloatDiv(Abs(p.v - vmin), Abs(r), bits), k, bits)))

\* Mutants of Scaled: scaling to 256 levels; dividing by vmax alone.
Scaled_256(p, vmin, vmax, bits) == ScaledBy(p, vmin, vmax - vmin, ScaleTo + 1, bits)
Scaled_byVmax(p, vmin, vmax, bits) == ScaledBy(p, vmin, vmax, ScaleTo, bits)

\* (depth_raw - vmin) / (vmax - vmin) * 255.0, for one pixel.
Scaled(p, vmin, vmax, bits) == ScaledBy(p, vmin, vmax - vmin, ScaleTo, bits)

U8Mod == 256

\* x.astype(np.uint8) for one value.  A value whose integer part lies in
\* 0..255 is truncated.  For any other value (and for NaN, +Inf, -Inf) the
\* conversion is undefined in C: builds either keep the low byte of the
\* integer conversion (wrap modulo 256; NaN and Inf give 0) or saturate.
AsU8(x, policy) ==
    IF x.k = "fin" /\ 0 <= x.v /\ x.v < U8Mod THEN x.v
    ELSE IF policy = "wrap"
         THEN IF x.k = "fin" THEN x.v % U8Mod ELSE 0
    ELSE \* "saturate"
         IF x.k = "fin" THEN (IF x.v < 0 THEN 0 ELSE U8Mod - 1)
         ELSE IF x.k = "pinf" THEN U8Mod - 1 ELSE 0

CastPolicies == {"wrap", "saturate"}

\* normalize_image(depth_raw, vmax=None, vmin=None) under a cast policy, for
\* an array of dtype dt.
NormalizeUnder(depth_raw, vmax, vmin, policy, dt) ==
    LET lo == IF vmin = None THEN finitemin(depth_raw) ELSE Ok(vmin.v)
        hi == IF vmax = None THEN finitemax(depth_raw) ELSE Ok(vmax.v)
    IN  IF lo.kind # "ok" THEN lo
        ELSE IF hi.kind # "ok" THEN hi
        ELSE Ok([i \in DOMAIN depth_raw |->
                    AsU8(Scaled(depth_raw[i], lo.val, hi.val, Precision(dt)),
                         policy)])

normalize_image(depth_raw, vmax, vmin) ==
    NormalizeUnder(depth_raw, vmax, vmin, castPolicy, dtype)

\* cv2.applyColorMap / cv2.merge: each 8-bit value g becomes a 3-channel
\* pixel, the palette's entry for g.
Colored(palette, gray) == [i \in DOMAIN gray |-> [palette |-> palette, g |-> gray[i]]]

\* depth_as_colorimage(depth_raw, vmin=None, vmax=None, colormap)
depth_as_colorimage(depth_raw, vmin, vmax, colormap) ==
    LET g == normalize_image(depth_raw, vmax, vmin)
    IN  IF g.kind # "ok" THEN g ELSE Ok(Colored(colormap, g.val))

\* depth_as_gray(depth_raw, vmin=None, vmax=None)
depth_as_gray(depth_raw, vmin, vmax) ==
    LET g == normalize_image(depth_raw, vmax, vmin)
    IN  IF g.kind # "ok" THEN g ELSE Ok(Colored("gray", g.val))

Colormaps == {"jet", "inferno"}

(***************************************************************************)
(* The pipelines that a specification does not run stay in these states.   *)
(***************************************************************************)
NoResult == [kind |-> "none", val |-> <<>>]
NoShown  == [mode |-> "none"]

NormIdle ==
    /\ nDepth = <<>> /\ nVmin = None /\ nVmax = None
    /\ nCall = [fn |-> "none", colormap |-> "none"] /\ nResult = NoResult

PlayIdle ==
    /\ pArgs = [disp3d |-> FALSE, gray |-> FALSE, jet |-> FALSE, inferno |-> FALSE,
                vmin |-> None, vmax |-> None]
    /\ pDir = {} /\ pPc = "idle" /\ pLeft = <<>> /\ pNpys = <<>>
    /\ pPairs = <<>> /\ pShown = NoShown /\ pWin = "none" /\ pErr = "none"

CapIdle ==
    /\ cArgs = [input_svo_file |-> <<>>, ip_address |-> <<>>, resolution |-> <<>>]
    /\ cPc = "idle" /\ cExit = "none" /\ cOutdir = FALSE /\ cZed = "none"
    /\ cInit = [input |-> <<"default">>, camera_resolution |-> <<>>,
                depth_mode |-> "default"]
    /\ cWin = "none" /\ cParam = FALSE /\ counter = 0 /\ cFiles = {}
    /\ cShown = 0 /\ cGrabs = 0 /\ cLast = "none"

(***************************************************************************)
(* SpecNorm: one call of normalize_image, depth_as_colorimage or           *)
(* depth_as_gray on a depth array and bounds drawn from the bounded sets.  *)
(***************************************************************************)
NormInit ==
    /\ castPolicy \in CastPolicies
    /\ dtype \in Dtypes
    /\ nDepth \in DepthArrays
    /\ nVmin \in BoundArgs
    /\ nVmax \in BoundArgs
    /\ nCall = [fn |-> "none", colormap |-> "none"]
    /\ nResult = NoResult
    /\ PlayIdle /\ CapIdle

\* cv2.applyColorMap and cv2.merge are applied to arrays that have pixels.
Colorizable == Len(nDepth) > 0 \/ nVmin = None \/ nVmax = None

CallNormalize ==
    /\ nCall.fn = "none"
    /\ nCall' = [fn |-> "normalize_image", colormap |-> "none"]
    /\ nResult' = normalize_image(nDepth, nVmax, nVmin)
    /\ UNCHANGED <<castPolicy, dtype, nDepth, nVmin, nVmax, playVars, capVars>>

CallColorimage ==
    /\ nCall.fn = "none" /\ Colorizable
    /\ \E cm \in Colormaps :
        /\ nCall' = [fn |-> "depth_as_colorimage", colormap |-> cm]
        /\ nResult' = depth_as_colorimage(nDepth, nVmin, nVmax, cm)
    /\ UNCHANGED <<castPolicy, dtype, nDepth, nVmin, nVmax, playVars, capVars>>

CallGray ==
    /\ nCall.fn = "none" /\ Colorizable
    /\ nCall' = [fn |-> "depth_as_gray", colormap |-> "none"]
    /\ nResult' = depth_as_gray(nDepth, nVmin, nVmax)
    /\ UNCHANGED <<castPolicy, dtype, nDepth, nVmin, nVmax, playVars, capVars>>

NormNext == CallNormalize \/ CallColorimage \/ CallGray

SpecNorm == NormInit /\ [][NormNext]_vars

(***************************************************************************)
(* The session directory: file names and their order.                      *)
(***************************************************************************)
RECURSIVE Digits(_)
\* The decimal digits of n >= 0, most significant first.
Digits(n) == IF n < 10 THEN <<n>> ELSE Append(Digits(n \div 10), n % 10)

IndexWidth == 5

RECURSIVE ZeroPad(_, _)
ZeroPad(ds, w) == IF Len(ds) >= w THEN ds ELSE ZeroPad(<<0>> \o ds, w)

\* f"{counter:05d}": at least five digits, zero-padded on the left.
Fmt05d(n) == ZeroPad(Digits(n), IndexWidth)

\* A file of the session directory: <dir>/<stem>_<digits>.<ext>
File(dir, stem, n, ext) == [dir |-> dir, stem |-> stem, digits |-> Fmt05d(n), ext |-> ext]

\* Mutant of FrameFiles: the right image is named with the next index.
FrameFiles_skew(c) ==
    { File("left", "left", c, "png"), File("right", "right", c + 1, "png"),
      File("zed-depth", "zeddepth", c, "png"), File("zed-depth", "zeddepth", c, "npy") }

\* leftname, rightname, depthname, depthnpyname of capture_main for a counter.
FrameFiles(c) ==
    { File("left", "left", c, "png"), File("right", "right", c, "png"),
      File("zed-depth", "zeddepth", c, "png"), File("zed-depth", "zeddepth", c, "npy") }

\* Order of two digit strings as parts of file names that agree up to the
\* digits: character by character; where one ends first, its "." sorts below
\* the other's digit.
RECURSIVE DigitsLess(_, _)
DigitsLess(a, b) ==
    IF a = <<>> THEN b # <<>>
    ELSE IF b = <<>> THEN FALSE
    ELSE IF Head(a) # Head(b) THEN Head(a) < Head(b)
    ELSE DigitsLess(Tail(a), Tail(b))

\* dir.glob("**/*.<ext>")
glob(files, dir, ext) == {f \in files : f.dir = dir /\ f.ext = ext}

\* Order of two paths of one directory and stem: by the digits, then by the
\* extension ("npy" sorts below "png").
PathLess(f, g) ==
    \/ DigitsLess(f.digits, g.digits)
    \/ f.digits = g.digits /\ f.ext = "npy" /\ g.ext = "png"

RECURSIVE sorted(_)
\* sorted(...) of paths of one directory and stem.
sorted(S) ==
    IF S = {} THEN <<>>
    ELSE LET m == CHOOSE f \in S : \A g \in S \ {f} : PathLess(f, g)
         IN  <<m>> \o sorted(S \ {m})

\* A session directory with L left images, R right images and D depth
\* arrays (each with its preview image), as a capture session names them.
SessionDir(L, R, D) ==
    {File("left", "left", i, "png") : i \in 0..(L - 1)}
    \cup {File("right", "right", i, "png") : i \in 0..(R - 1)}
    \cup {File("zed-depth", "zeddepth", i, "npy") : i \in 0..(D - 1)}
    \cup {File("zed-depth", "zeddepth", i, "png") : i \in 0..(D - 1)}

Min2(a, b) == IF a <= b THEN a ELSE b

\* zip(a, b): the number of pairs.
ZipLen(a, b) == Min2(Len(a), Len(b))

(***************************************************************************)
(* SpecPlay: depth_viewer_main, view_by_colormap and view3d.               *)
(***************************************************************************)
DefaultVmin == 0
DefaultVmax == 5000

\* --vmin / --vmax: the defaults, and bounds inside the depth values.
PlayBounds == { <<DefaultVmin, DefaultVmax>>, <<0, MaxDepth - 1>>, <<1, MaxDepth - 1>> }

PlayArgs ==
    { [disp3d |-> d, gray |-> g, jet |-> j, inferno |-> i,
       vmin |-> Fin(b[1]), vmax |-> Fin(b[2])] :
        d \in BOOLEAN, g \in BOOLEAN, j \in BOOLEAN, i \in BOOLEAN, b \in PlayBounds }

\* The depth arrays stored in the .npy files.
PlayFrames ==
    { <<Fin(1), Fin(2)>>, <<Fin(0), Fin(MaxDepth)>>, <<NaN, NaN>>, <<Fin(2), PosInf>> }

\* What cv2.imread gives for a left image: an image of the depth array's
\* shape, None (unreadable file), or an image of another shape.
LeftKinds == {"ok", "unreadable", "othershape"}

PlayInit ==
    /\ castPolicy \in CastPolicies
    /\ dtype \in Dtypes
    /\ pArgs \in PlayArgs
    /\ \E L \in 0..MaxFiles, R \in 0..MaxFiles, D \in 0..MaxFiles :
          pDir = SessionDir(L, R, D)
    /\ pPc = "start" /\ pLeft = <<>> /\ pNpys = <<>>
    /\ pPairs = <<>> /\ pShown = NoShown /\ pWin = "none" /\ pErr = "none"
    /\ NormIdle /\ CapIdle

\* depth_viewer_main up to the loop of view3d or view_by_colormap: the two
\* sorted lists; view3d creates the visualizer window.
PlayStart ==
    /\ pPc = "start"
    /\ pLeft' = sorted(glob(pDir, "left", "png"))
    /\ pNpys' = sorted(glob(pDir, "zed-depth", "npy"))
    /\ pWin' = IF pArgs.disp3d THEN "open" ELSE pWin
    /\ pPc' = "loop"
    /\ UNCHANGED <<castPolicy, dtype, pArgs, pDir, pPairs, pShown, pErr, normVars, capVars>>

\* The colored depth of view_by_colormap for the palette flags.
ColoredDepth(args, depth) ==
    IF args.gray THEN depth_as_gray(depth, None, None)
    ELSE IF args.jet THEN depth_as_colorimage(depth, args.vmin, args.vmax, "jet")
    ELSE IF args.inferno THEN depth_as_colorimage(depth, args.vmin, args.vmax, "inferno")
    ELSE depth_as_colorimage(depth, args.vmin, args.vmax, "jet")

\* One iteration of the loop of view_by_colormap.
ColormapFrame ==
    /\ pPc = "loop" /\ ~pArgs.disp3d
    /\ Len(pPairs) < ZipLen(pLeft, pNpys)
    /\ \E depth \in PlayFrames, image \in LeftKinds :
        LET k == Len(pPairs) + 1
            colored == ColoredDepth(pArgs, depth)
            err == IF colored.kind # "ok" THEN colored.kind
                   ELSE IF image = "unreadable" THEN "AttributeError"
                   ELSE IF image = "othershape" THEN "AssertionError"
                   ELSE "none"
        IN  /\ pPairs' = Append(pPairs, <<pLeft[k], pNpys[k]>>)
            /\ pErr' = err
            /\ IF err # "none"
               THEN /\ pPc' = "error"
                    /\ UNCHANGED <<pShown, pWin>>
               ELSE /\ pPc' = "loop"
                    /\ pShown' = [mode |-> "2d", left |-> pLeft[k], depth_name |-> pNpys[k],
                                  depth |-> depth, colored |-> colored.val]
                    /\ pWin' = "open"
    /\ UNCHANGED <<castPolicy, dtype, pArgs, pDir, pLeft, pNpys, normVars, capVars>>

\* One iteration of the loop of view3d.
View3dFrame ==
    /\ pPc = "loop" /\ pArgs.disp3d
    /\ Len(pPairs) < ZipLen(pLeft, pNpys)
    /\ \E depth \in PlayFrames, image \in LeftKinds :
        LET k == Len(pPairs) + 1
            \* an empty or differently sized color image is refused by
            \* RGBDImage.create_from_color_and_depth
            err == IF image # "ok" THEN "RuntimeError" ELSE "none"
        IN  /\ pPairs' = Append(pPairs, <<pLeft[k], pNpys[k]>>)
            /\ pErr' = err
            /\ IF err # "none"
               THEN /\ pPc' = "error"
                    /\ UNCHANGED pShown
               ELSE /\ pPc' = "loop"
                    /\ pShown' = [mode |-> "3d", left |-> pLeft[k], depth_name |-> pNpys[k],
                                  depth |-> depth, colored |-> <<>>]
    /\ UNCHANGED <<castPolicy, dtype, pArgs, pDir, pLeft, pNpys, pWin, normVars, capVars>>

\* The end of zip: view_by_colormap returns; view3d destroys its window.
PlayEnd ==
    /\ pPc = "loop"
    /\ Len(pPairs) = ZipLen(pLeft, pNpys)
    /\ pPc' = "done"
    /\ pWin' = IF pArgs.disp3d THEN "destroyed" ELSE pWin
    /\ UNCHANGED <<castPolicy, dtype, pArgs, pDir, pLeft, pNpys, pPairs, pShown, pErr,
                   normVars, capVars>>

PlayNext == PlayStart \/ ColormapFrame \/ View3dFrame \/ PlayEnd

SpecPlay == PlayInit /\ [][PlayNext]_vars

(***************************************************************************)
(* zed_capture.py.  A command-line string is a sequence of characters; a   *)
(* character is a record of its name and of the properties Python reads    *)
(* from the Unicode database:                                              *)
(*   kind "decimal"  a decimal digit (ASCII or not), val its value         *)
(*   kind "digit"    a digit that is not decimal (superscripts, circled    *)
(*                   digits, ...): str.isdigit accepts it, int() does not  *)
(*   kind "space"    whitespace that int() strips                          *)
(*   kind "other"    any other character                                   *)
(***************************************************************************)
Ch(c)     == [c |-> c, kind |-> "other", val |-> 0]
Dec(c, v) == [c |-> c, kind |-> "decimal", val |-> v]
Dig(c, v) == [c |-> c, kind |-> "digit", val |-> v]
Sp(c)     == [c |-> c, kind |-> "space", val |-> 0]

AsciiDigits == <<"0", "1", "2", "3", "4", "5", "6", "7", "8", "9">>

\* An ASCII character.
Ascii(c) ==
    IF \E i \in 1..Len(AsciiDigits) : AsciiDigits[i] = c
    THEN Dec(c, (CHOOSE i \in 1..Len(AsciiDigits) : AsciiDigits[i] = c) - 1)
    ELSE IF c = " " THEN Sp(c) ELSE Ch(c)

\* A string of ASCII characters.
Str(cs) == [i \in 1..Len(cs) |-> Ascii(cs[i])]

\* ARABIC-INDIC DIGIT ZERO .. NINE, decimal digits outside ASCII.
ArabicDigits == <<"U+0660", "U+0661", "U+0662", "U+0663", "U+0664",
                  "U+0665", "U+0666", "U+0667", "U+0668", "U+0669">>
Arabic(v) == Dec(ArabicDigits[v + 1], v)
\* SUPERSCRIPT TWO (U+00B2), a digit that is not decimal.
SuperscriptTwo == Dig("U+00B2", 2)

\* s.endswith(suf)
EndsWith(s, suf) ==
    /\ Len(s) >= Len(suf)
    /\ SubSeq(s, Len(s) - Len(suf) + 1, Len(s)) = suf

\* sub in s
Contains(s, sub) ==
    \E i \in 1..(Len(s) - Len(sub) + 1) : SubSeq(s, i, i + Len(sub) - 1) = sub

\* s.replace(ch, "")
Without(s, ch) == SelectSeq(s, LAMBDA c : c # Ascii(ch))

\* s.isdigit(): not empty, and every character is a digit, decimal or not.
IsDigit(s) == Len(s) > 0 /\ \A i \in 1..Len(s) : s[i].kind \in {"decimal", "digit"}

\* len(s.split(ch))
SplitLen(s, ch) == Cardinality({i \in 1..Len(s) : s[i] = Ascii(ch)}) + 1

\* s.split(":")[0] and s.split(":")[1] of a string with one ":"
ColonAt(s)    == CHOOSE i \in 1..Len(s) : s[i] = Ascii(":")
BeforeColon(s) == SubSeq(s, 1, ColonAt(s) - 1)
AfterColon(s)  == SubSeq(s, ColonAt(s) + 1, Len(s))

RECURSIVE LStrip(_)
LStrip(s) == IF s # <<>> /\ Head(s).kind = "space" THEN LStrip(Tail(s)) ELSE s

RECURSIVE RStrip(_)
RStrip(s) ==
    IF s # <<>> /\ s[Len(s)].kind = "space" THEN RStrip(SubSeq(s, 1, Len(s) - 1)) ELSE s

RECURSIVE DigitsValue(_)
\* The number written by a string of decimal digits.
DigitsValue(s) ==
    IF s = <<>> THEN 0
    ELSE DigitsValue(SubSeq(s, 1, Len(s) - 1)) * 10 + s[Len(s)].val

\* int(s): surrounding whitespace is stripped; an optional sign; then
\* decimal digits, with single underscores allowed between two digits.
\* Anything else is a ValueError.
ParseInt(s) ==
    LET t == RStrip(LStrip(s))
        signed == t # <<>> /\ (t[1] = Ascii("+") \/ t[1] = Ascii("-"))
        d == IF signed THEN Tail(t) ELSE t
        isdec(i) == i \in 1..Len(d) /\ d[i].kind = "decimal"
        wellformed ==
            /\ Len(d) > 0
            /\ \A i \in 1..Len(d) :
                  isdec(i) \/ (d[i] = Ascii("_") /\ isdec(i - 1) /\ isdec(i + 1))
        n == DigitsValue(SelectSeq(d, LAMBDA c : c.kind = "decimal"))
    IN  IF ~wellformed THEN Raised("ValueError")
        ELSE IF signed /\ t[1] = Ascii("-") THEN Ok(-n) ELSE Ok(n)

Svo  == Str(<<".", "s", "v", "o">>)
STR_svo   == Str(<<"a">>) \o Svo
STR_avi   == Str(<<"a", ".", "a", "v", "i">>)
STR_ip    == Str(<<"1", ".", "2", ".", "3", ".", "4">>)
STR_ipport == STR_ip \o Str(<<":", "8", "0">>)
STR_ipcolon == STR_ip \o Str(<<":">>)
STR_host  == Str(<<"h", "o", "s", "t">>)
\* 1.2.3.4:<superscript two>
STR_ipsup == STR_ip \o <<Ascii(":"), SuperscriptTwo>>
\* 1.2.3.4:80 written in Arabic-Indic digits
STR_iparabic ==
    <<Arabic(1), Ascii("."), Arabic(2), Ascii("."), Arabic(3), Ascii("."), Arabic(4),
      Ascii(":"), Arabic(8), Arabic(0)>>
HD2K   == Str(<<"H", "D", "2", "K">>)
HD1200 == Str(<<"H", "D", "1", "2", "0", "0">>)
HD1080 == Str(<<"H", "D", "1", "0", "8", "0">>)
HD720  == Str(<<"H", "D", "7", "2", "0">>)
VGA    == Str(<<"V", "G", "A">>)
SVGA   == Str(<<"S">>) \o VGA
STR_4K == Str(<<"4", "K">>)

ResolutionNames == {HD2K, HD1200, HD1080, HD720, SVGA, VGA}

\* The resolution chain of parse_args_to_params: the first name that occurs
\* in the selector, or the resolution already in init_params.
SelectResolution(res, current) ==
    IF Contains(res, HD2K) THEN HD2K
    ELSE IF Contains(res, HD1200) THEN HD1200
    ELSE IF Contains(res, HD1080) THEN HD1080
    ELSE IF Contains(res, HD720) THEN HD720
    ELSE IF Contains(res, SVGA) THEN SVGA
    ELSE IF Contains(res, VGA) THEN VGA
    ELSE current

\* The input source chosen by parse_args_to_params, or the ValueError of
\* int() on a port that is not a number.
SelectInput(args, current) ==
    LET svo == args.input_svo_file
        ip  == args.ip_address
        num == IsDigit(Without(Without(ip, ":"), "."))
    IN  IF Len(svo) > 0 /\ EndsWith(svo, Svo) THEN Ok(<<"svo", svo>>)
        ELSE IF Len(ip) > 0
             THEN IF num /\ SplitLen(ip, ".") = 4 /\ SplitLen(ip, ":") = 2
                  THEN LET port == ParseInt(AfterColon(ip))
                       IN  IF port.kind # "ok" THEN port
                           ELSE Ok(<<"stream", BeforeColon(ip), port.val>>)
                  ELSE IF num /\ SplitLen(ip, ".") = 4
                       THEN Ok(<<"stream", ip>>)
                       ELSE Ok(current)
        ELSE Ok(current)

\* parse_args_to_params(args, init_params): init_params afterwards.
parse_args_to_params(args, init_params) ==
    LET input == SelectInput(args, init_params.input)
    IN  IF input.kind # "ok" THEN input
        ELSE Ok([init_params EXCEPT
                    !.input = input.val,
                    !.camera_resolution =
                        SelectResolution(args.resolution, init_params.camera_resolution)])

\* sl.InitParameters()
DefaultRes == Str(<<"d", "e", "f", "a", "u", "l", "t">>)
InitParameters ==
    [input |-> <<"default">>, camera_resolution |-> DefaultRes, depth_mode |-> "default"]

\* capture_main from sl.InitParameters() to the argument of zed.open.
OpenParameters(args) ==
    LET parsed == parse_args_to_params(args, InitParameters)
    IN  IF parsed.kind # "ok" THEN parsed
        ELSE Ok([parsed.val EXCEPT !.depth_mode = "ULTRA", !.camera_resolution = HD2K])

\* main: both input sources given.
UsageError(args) == Len(args.input_svo_file) > 0 /\ Len(args.ip_address) > 0

\* The live preview of capture_main.
as_colorimage(depth) == depth_as_colorimage(depth, None, None, "inferno")

CapArgs ==
    { [input_svo_file |-> f, ip_address |-> a, resolution |-> r] :
        f \in {<<>>, STR_svo, STR_avi},
        a \in {<<>>, STR_ip, STR_ipport, STR_ipcolon, STR_host, STR_ipsup, STR_iparabic},
        r \in ResolutionNames \cup {<<>>, STR_4K} }

\* The depth measures the camera delivers.
CapFrames == { <<Fin(0), Fin(1)>>, <<NaN, NaN>> }

Keys == {"q", "other"}

\* The names depth_view.py binds at module level.
DepthViewNames ==
    { "time", "Path", "cv2", "np", "o3d", "tqdm",
      "finitemax", "finitemin", "normalize_image", "depth_as_colorimage",
      "depth_as_gray", "resize_image", "as_matrix", "view_by_colormap", "view3d",
      "depth_viewer_main" }

\* from <module> import <name>
ImportFrom(names, name) == IF name \in names THEN "ok" ELSE "ImportError"

\* A capture process before anything has run.  The camera delivers float32.
CapFresh ==
    /\ castPolicy \in CastPolicies
    /\ dtype = "float32"
    /\ cArgs \in CapArgs
    /\ cExit = "none" /\ cOutdir = FALSE /\ cZed = "none"
    /\ cInit = InitParameters
    /\ cWin = "none" /\ cParam = FALSE /\ counter = 0 /\ cFiles = {}
    /\ cShown = 0 /\ cGrabs = 0 /\ cLast = "none"
    /\ NormIdle /\ PlayIdle

\* The capture command is started.
CapInit == CapFresh /\ cPc = "start"

\* The module-level statements of zed_capture.py, which run before main can
\* be called: the import of as_colorimage from depthview.depth_view.
LoadModule ==
    /\ cPc = "start"
    /\ IF ImportFrom(DepthViewNames, "as_colorimage") = "ok"
       THEN cPc' = "main" /\ UNCHANGED cExit
       ELSE cPc' = "exited" /\ cExit' = "ImportError"
    /\ UNCHANGED <<castPolicy, dtype, cArgs, cOutdir, cZed, cInit, cWin, cParam,
                   counter, cFiles, cShown, cGrabs, cLast, normVars, playVars>>

\* main is entered in a module namespace in which the imported names,
\* as_colorimage among them, are bound.
CapMainInit == CapFresh /\ cPc = "main"

\* main, and capture_main up to its loop.
Main ==
    /\ cPc = "main"
    /\ IF UsageError(cArgs)
       THEN \* print(...); exit()
            /\ cPc' = "exited" /\ cExit' = "usage"
            /\ UNCHANGED <<cOutdir, cZed, cInit, cWin, cParam, counter>>
       ELSE LET params == OpenParameters(cArgs)
            IN  /\ cOutdir' = TRUE
                /\ cZed' \in IF params.kind = "ok" THEN {"created", "open"} ELSE {"created"}
                /\ IF params.kind # "ok"
                   THEN /\ cPc' = "exited" /\ cExit' = params.kind
                        /\ UNCHANGED <<cInit, cWin, cParam, counter>>
                   ELSE /\ cInit' = params.val
                        /\ IF cZed' = "created"
                           THEN \* zed.open failed: print(err); exit(1)
                                /\ cPc' = "exited" /\ cExit' = "open_failed"
                                /\ UNCHANGED <<cWin, cParam, counter>>
                           ELSE /\ cWin' = "open"
                                /\ cParam' = TRUE
                                /\ counter' = 0
                                /\ cPc' = "loop" /\ cExit' = "none"
    /\ UNCHANGED <<castPolicy, dtype, cArgs, cFiles, cShown, cGrabs, cLast, normVars, playVars>>

\* Mutant of GrabFail: a failed grab ends the session.
GrabFail_break ==
    /\ cPc = "loop"
    /\ cLast' = "grab_failed"
    /\ cPc' = "exited" /\ cExit' = "grab_failed"
    /\ UNCHANGED <<castPolicy, dtype, cArgs, cOutdir, cZed, cInit, cWin, cParam,
                   counter, cFiles, cShown, cGrabs, normVars, playVars>>

\* A loop pass whose zed.grab fails: continue.
GrabFail ==
    /\ cPc = "loop"
    /\ cLast' = "grab_failed"
    /\ UNCHANGED <<castPolicy, dtype, cArgs, cPc, cExit, cOutdir, cZed, cInit, cWin, cParam,
                   counter, cFiles, cShown, cGrabs, normVars, playVars>>

\* A loop pass whose zed.grab succeeds.  The images the SDK delivers have
\* four channels, so the assertions on them hold.
GrabOk ==
    /\ cPc = "loop"
    /\ cGrabs < MaxFrames
    /\ \E depth \in CapFrames, key \in Keys :
        LET preview == as_colorimage(depth)
        IN  /\ cFiles' = cFiles \cup FrameFiles(counter)
            /\ cGrabs' = cGrabs + 1
            /\ cLast' = "grab_ok"
            /\ IF preview.kind # "ok"
               THEN /\ cPc' = "exited" /\ cExit' = preview.kind
                    /\ UNCHANGED <<counter, cShown>>
               ELSE /\ cShown' = cShown + 1
                    /\ counter' = counter + 1
                    /\ IF key = "q"
                       THEN cPc' = "exited" /\ cExit' = "quit"
                       ELSE UNCHANGED <<cPc, cExit>>
    /\ UNCHANGED <<castPolicy, dtype, cArgs, cOutdir, cZed, cInit, cWin, cParam,
                   normVars, playVars>>

\* The capture command: the module is loaded, then main runs.  The import
\* fails, so loading the module is the only step the command takes.
CapNext == LoadModule

SpecCapture == CapInit /\ [][CapNext]_vars

\* main and capture_main, once the module's names are bound.
CapMainNext == Main \/ GrabFail \/ GrabOk

SpecCaptureMain == CapMainInit /\ [][CapMainNext]_vars

(***************************************************************************)
(* Claims about the pure functions (checked under SpecNorm).               *)
(***************************************************************************)
Called(f) == nCall.fn = f
NoFinite  == FiniteEntries(nDepth) = {}
FMin      == SetMin(FiniteEntries(nDepth))
FMax      == SetMax(FiniteEntries(nDepth))

\* C1: a depth array with no finite entry (empty, or only NaN/+Inf/-Inf),
\* normalized or colorized without vmin/vmax, ends in the EmptyDepthRange
\* error and never in an image.
C1_EmptyDepthRange ==
    (~Called("none") /\ NoFinite /\ nVmin = None /\ nVmax = None)
        => nResult.kind = "EmptyDepthRange"

\* The bounds of the call are the defaults: the finite minimum and maximum,
\* passed or left to normalize_image.
DefaultBounds ==
    /\ ~NoFinite
    /\ nVmin \in {None, Fin(FMin)}
    /\ nVmax \in {None, Fin(FMax)}

MinTo0MaxTo255 ==
    /\ nResult.kind = "ok"
    /\ \A i \in DOMAIN nDepth :
          /\ nDepth[i] = Fin(FMin) => nResult.val[i] = 0
          /\ nDepth[i] = Fin(FMax) => nResult.val[i] = 255

\* C2 as stated: with the default bounds every pixel equal to the finite
\* minimum maps to 0 and every pixel equal to the finite maximum to 255,
\* also when the finite minimum equals the finite maximum.
C2_MinMaxAlways ==
    (Called("normalize_image") /\ DefaultBounds) => MinTo0MaxTo255

\* C2 amended: the same, for arrays whose finite minimum is below their
\* finite maximum.
C2_MinMax ==
    (Called("normalize_image") /\ DefaultBounds /\ FMin < FMax) => MinTo0MaxTo255

C2_Witness ==
    /\ Called("normalize_image") /\ nVmin = None /\ nVmax = None
    /\ ~NoFinite /\ FMin < FMax /\ Len(nDepth) = 2
    /\ nResult.kind = "ok"
    /\ \E i, j \in DOMAIN nDepth : nResult.val[i] = 0 /\ nResult.val[j] = 255

\* The integer part of (d - vmin) * 255 / (vmax - vmin), vmin < vmax.
C10_Expected(d, vmin, vmax) ==
    IF d >= vmin THEN ((d - vmin) * 255) \div (vmax - vmin)
    ELSE -(((vmin - d) * 255) \div (vmax - vmin))

C10_Case ==
    /\ Called("normalize_image")
    /\ nVmin # None /\ nVmax # None /\ nVmin.v < nVmax.v

C10_InRange(i) ==
    /\ isfinite(nDepth[i])
    /\ nVmin.v <= nDepth[i].v /\ nDepth[i].v <= nVmax.v

C10_InRangePart ==
    /\ nResult.kind = "ok"
    /\ \A i \in DOMAIN nDepth : C10_InRange(i) =>
          /\ nResult.val[i] = C10_Expected(nDepth[i].v, nVmin.v, nVmax.v)
          /\ nResult.val[i] \in 0..255
    /\ \A i, j \in DOMAIN nDepth :
          (C10_InRange(i) /\ C10_InRange(j) /\ nDepth[i].v <= nDepth[j].v)
              => nResult.val[i] <= nResult.val[j]

C10_Clamp(e) == IF e < 0 THEN 0 ELSE IF e > 255 THEN 255 ELSE e

\* C10 as stated: with vmin < vmax supplied, a finite pixel in [vmin, vmax]
\* maps to trunc((d - vmin) * 255 / (vmax - vmin)), in 0..255 and
\* non-decreasing in d, and a finite pixel outside [vmin, vmax] maps to its
\* scaled value wrapped modulo 256.
C10_Wraps ==
    C10_Case =>
        /\ C10_InRangePart
        /\ \A i \in DOMAIN nDepth :
              (isfinite(nDepth[i]) /\ ~C10_InRange(i)) =>
                  nResult.val[i] =
                      C10_Expected(nDepth[i].v, nVmin.v, nVmax.v) % 256

\* C10 amended: the in-range part as stated; a finite pixel outside
\* [vmin, vmax] is not clamped by normalize_image, and the cast gives the
\* integer part of its scaled value either wrapped modulo 256 or saturated
\* to 0 / 255.  (For the depths and bounds of the model the floating-point
\* scaled value has the integer part of the exact quotient.)
C10_NoClamp ==
    C10_Case =>
        /\ C10_InRangePart
        /\ \A i \in DOMAIN nDepth :
              (isfinite(nDepth[i]) /\ ~C10_InRange(i)) =>
                  LET e == C10_Expected(nDepth[i].v, nVmin.v, nVmax.v)
                  IN  nResult.val[i] \in {e % 256, C10_Clamp(e)}

\* A pixel beyond vmax that got a smaller output than a pixel inside the range.
C10_Witness ==
    /\ C10_Case /\ nResult.kind = "ok"
    /\ \E i, j \in DOMAIN nDepth :
          /\ C10_InRange(i)
          /\ isfinite(nDepth[j]) /\ nDepth[j].v > nVmax.v
          /\ nResult.val[j] < nResult.val[i]

(***************************************************************************)
(* Claims about playback (checked under SpecPlay).                         *)
(***************************************************************************)
NLeft  == Cardinality({f \in pDir : f.dir = "left" /\ f.ext = "png"})
NRight == Cardinality({f \in pDir : f.dir = "right" /\ f.ext = "png"})
NDepth == Cardinality({f \in pDir : f.dir = "zed-depth" /\ f.ext = "npy"})

\* C3: a playback that ends has processed exactly min(L, R, D) frames, for
\* L left images, R right images and D depth arrays in the session directory.
C3_MinOfThree ==
    pPc = "done" => Len(pPairs) = Min2(NLeft, Min2(NRight, NDepth))

C9_Palette == IF pArgs.gray THEN "gray" ELSE IF pArgs.jet THEN "jet"
              ELSE IF pArgs.inferno THEN "inferno" ELSE "jet"

\* C9: every frame shown by 2D playback is normalized with the --vmin and
\* --vmax of the command line, whatever the palette.
C9_BoundsUsed ==
    pShown.mode = "2d" =>
        LET g == NormalizeUnder(pShown.depth, pArgs.vmax, pArgs.vmin, castPolicy, dtype)
        IN  /\ g.kind = "ok"
            /\ pShown.colored = [i \in DOMAIN g.val |->
                                    [palette |-> C9_Palette, g |-> g.val[i]]]

(***************************************************************************)
(* Claims about the capture loop (checked under SpecCaptureMain) and about *)
(* the capture command (checked under SpecCapture).                        *)
(***************************************************************************)
C4_Named(dir, stem, i, ext) ==
    [dir |-> dir, stem |-> stem, digits |-> Fmt05d(i), ext |-> ext]

\* C4: the files written are exactly left_i.png, right_i.png, zeddepth_i.npy
\* and zeddepth_i.png for i = 0..n-1, n the number of successful grabs.
C4_FilesByIndex ==
    cFiles = UNION { { C4_Named("left", "left", i, "png"),
                       C4_Named("right", "right", i, "png"),
                       C4_Named("zed-depth", "zeddepth", i, "npy"),
                       C4_Named("zed-depth", "zeddepth", i, "png") } : i \in 0..(cGrabs - 1) }

C4_Witness ==
    /\ cGrabs = 2 /\ cLast = "grab_failed" /\ cPc = "loop"
    /\ Cardinality(cFiles) = 8

\* C5: a loop pass whose grab fails writes no file, keeps the frame index,
\* shows nothing and leaves the session in its loop.
C5_FailedGrabTransient ==
    [][(cPc = "loop" /\ cLast' = "grab_failed") =>
          /\ cFiles' = cFiles /\ counter' = counter /\ cShown' = cShown
          /\ cPc' = "loop" /\ cExit' = "none"]_vars

C5_Witness ==
    /\ cPc = "loop" /\ cLast = "grab_failed" /\ cExit = "none"
    /\ counter > 0 /\ cFiles # {}

C6_BothGiven == Len(cArgs.input_svo_file) > 0 /\ Len(cArgs.ip_address) > 0

\* C6: with both a replay file and a network address the command ends with
\* the usage error, before any directory, camera, record or frame.
C6_UsageErrorFirst ==
    (C6_BothGiven /\ cPc # "start") =>
        /\ cPc = "exited" /\ cExit = "usage"
        /\ ~cOutdir /\ cZed = "none" /\ cWin = "none" /\ ~cParam /\ cFiles = {}

\* C7: a run that has ended, normally or by an error, holds no open camera
\* and no open window.
C7_Released ==
    /\ pPc \in {"done", "error"} => pWin # "open"
    /\ cPc = "exited" => (cZed # "open" /\ cWin # "open")

\* C8: the camera is opened with the resolution the selector names, or with
\* the device default when it names none of the six.
C8_ResolutionSelected ==
    cZed = "open" =>
        cInit.camera_resolution =
            IF cArgs.resolution \in ResolutionNames THEN cArgs.resolution ELSE DefaultRes

====
